---- MODULE Spec2Model ----
(***************************************************************************)
(* Configuration registry and motion dispatch of s1id_positions.py:        *)
(* move, add_config, change_order, capture_config, delete_motor,           *)
(* delete_config, switch_to, enable_motor, disable_motor.                  *)
(*                                                                         *)
(* A plan is a Python generator run by the RunEngine, one plan at a time.  *)
(* bps.mv(obj, value) requests a motion ("set") and waits for it ("wait"). *)
(* A Python dict is a sequence of entries [k, v] in insertion order with   *)
(* distinct keys.  Numbers are modelled by integers (an int and a float of *)
(* the same value are the same number, as in Python); the type of an       *)
(* argument is kept beside its value.                                      *)
(***************************************************************************)
EXTENDS Integers, Sequences, FiniteSets, TLC

VARIABLES
    configs,      \* value of the `configs` signal: config name -> dict motor name -> position
    disable,      \* the .disable PV of every MPEMotor (1 = disabled)
    plan,         \* the call the RunEngine runs, or ran last, with its arguments
    pc,           \* "idle", "start", "moving", "ready", "done", "raised"
    motions,      \* motions requested by the plan, in order: [motor, target, lim]
    finished,     \* how many of them have been waited for
    validated,    \* how many (motor, position) pairs move has begun to validate
    limits_read,  \* the limits read by the last limit check of the plan
    error,        \* the exception that ended the plan, or NoError
    reordered     \* the last successful change_order, while nothing but switch_to followed

vars == <<configs, disable, plan, pc, motions, finished, validated, limits_read, error, reordered>>

\* ---------------------------------------------------------------- bounds
MaxArgs == 4      \* longest argument list of move
MaxDict == 2      \* most entries of a new_dict
MaxOrder == 2     \* longest new_order

\* ---------------------------------------------------------------- devices
\* class name of every device of the object registry
oregistry ==
    [tomoEus_x |-> "MPEMotor", shield |-> "AMCIMotor", hexa |-> "ConicalMotor",
     KslitB |-> "PVPositionerSoftDone", shutter_c |-> "ApsPssShutterWithStatus"]

DeviceNames == DOMAIN oregistry

motor_classes ==
    {"MPEMotor", "AMCIMotor", "PVPositionerSoftDone", "EpicsSignal", "ConicalMotor"}

\* classes whose objects add_config, change_order and delete_motor turn into a name
object_classes ==
    {"MPEMotor", "AMCIMotor", "PVPositionerSoftDone", "ApsPssShutterWithStatus", "EpicsSignal"}

\* classes whose travel limits move checks
limit_classes == {"MPEMotor", "AMCIMotor", "ConicalMotor"}

POSITIONS ==
    [tomoEus_x |-> [in |-> 0, out |-> 220],
     shield    |-> [in |-> 0, out |-> 220]]

\* ---------------------------------------------------------------- values
Obj(n)    == [kind |-> "obj", name |-> n]     \* a device object
NameOf(n) == [kind |-> "str", name |-> n]     \* a str

IntV(n)   == [t |-> "int", n |-> n, s |-> ""]
FloatV(n) == [t |-> "float", n |-> n, s |-> ""]
StrV(s)   == [t |-> "str", n |-> 0, s |-> s]
NoneV     == [t |-> "NoneType", n |-> 0, s |-> ""]

\* motor.__class__.__name__
ClassName(motor) == IF motor.kind = "str" THEN "str" ELSE oregistry[motor.name]

NoError == [cls |-> "", msg |-> ""]
Raise(cls, msg) == [cls |-> cls, msg |-> msg]

\* values the travel-limit PVs can hold when they are read
LowLimits  == {-200, 0}
HighLimits == {0, 220}
NoLimits   == [read |-> FALSE, lo |-> 0, hi |-> 0]

\* ---------------------------------------------------------------- dict
Keys(d) == {d[i].k : i \in DOMAIN d}

Get(d, k) == d[CHOOSE i \in DOMAIN d : d[i].k = k].v

\* d[k] = v : a present key keeps its place, a new key goes to the end
DictSet(d, k, v) ==
    IF k \in Keys(d)
    THEN [i \in DOMAIN d |-> IF d[i].k = k THEN [k |-> k, v |-> v] ELSE d[i]]
    ELSE Append(d, [k |-> k, v |-> v])

RECURSIVE DictUpdate(_, _)
\* {**d, **e}
DictUpdate(d, e) ==
    IF e = <<>> THEN d
    ELSE DictUpdate(DictSet(d, Head(e).k, Head(e).v), Tail(e))

\* ---------------------------------------------------------------- move
\* variant: the parity test is missing
odd_args_mutant(args) == FALSE
\* len(args) % 2 != 0
odd_args(args) == Len(args) % 2 # 0

\* variant: every name resolves to 'in' and the type of a position is not tested
resolve_position_mutant(name, position) ==
    IF position.t = "str"
    THEN IF name \in DOMAIN POSITIONS /\ position.s \in DOMAIN POSITIONS[name]
         THEN [err |-> NoError, p |-> POSITIONS[name]["in"]]
         ELSE [err |-> Raise("KeyError", "POSITIONS"), p |-> 0]
    ELSE [err |-> NoError, p |-> position.n]
\* the position a request stands for: a str is looked up in POSITIONS, a number is
\* itself, anything else is a TypeError
resolve_position(name, position) ==
    IF position.t = "str"
    THEN IF name \in DOMAIN POSITIONS /\ position.s \in DOMAIN POSITIONS[name]
         THEN [err |-> NoError, p |-> POSITIONS[name][position.s]]
         ELSE [err |-> Raise("KeyError", "POSITIONS"), p |-> 0]
    ELSE IF position.t \notin {"int", "float"}
         THEN [err |-> Raise("TypeError", "Position type not recognized"), p |-> 0]
         ELSE [err |-> NoError, p |-> position.n]

\* variant: a position on the low limit is refused
out_of_limits_mutant(p, lo, hi) == p > hi \/ p <= lo
\* position > high_limit_travel.get() or position < low_limit_travel.get()
out_of_limits(p, lo, hi) == p > hi \/ p < lo

\* motor.__class__.__name__ in ["MPEMotor", "AMCIMotor", "ConicalMotor"]
checks_limits(cls) == cls \in limit_classes

\* One turn of move's loop for the pair (motor, position), up to bps.mv: the error
\* raised, or the motion to request.  dis is the value of the .disable PVs, lo and
\* hi what the limit PVs return when (and if) they are read.
move_pair(motor, position, dis, lo, hi) ==
    LET name == motor.name      \* a str is looked up in oregistry, an object is itself
        cls  == oregistry[name]
        res  == resolve_position(name, position)
        lim  == [read |-> TRUE, lo |-> lo, hi |-> hi]
    IN  IF cls \notin motor_classes
        THEN [err |-> Raise("TypeError", "Motor not recognized"), name |-> name,
              p |-> 0, lim |-> NoLimits]
        ELSE IF cls = "MPEMotor" /\ dis[name] = 1
        THEN [err |-> Raise("ValueError", "not enabled"), name |-> name,
              p |-> 0, lim |-> NoLimits]
        ELSE IF res.err # NoError
        THEN [err |-> res.err, name |-> name, p |-> 0, lim |-> NoLimits]
        ELSE IF checks_limits(cls)
        THEN IF out_of_limits(res.p, lo, hi)
             THEN [err |-> Raise("ValueError", "out of limits"), name |-> name,
                   p |-> res.p, lim |-> lim]
             ELSE [err |-> NoError, name |-> name, p |-> res.p, lim |-> lim]
        ELSE [err |-> NoError, name |-> name, p |-> res.p, lim |-> NoLimits]

\* ---------------------------------------------------------------- plans
NoKey == [kind |-> "none", name |-> ""]
NoOrder == [islist |-> TRUE, items |-> <<>>]

NoPlan ==
    [op |-> "none", config_name |-> "", new_dict |-> <<>>, new_order |-> NoOrder,
     overwrite |-> TRUE, motor |-> NoKey, device |-> "", args |-> <<>>]

NotReordered == [config_name |-> "", order |-> <<>>]

\* configs are intended to change throughout an experiment; the common ones
CONFIGS_INIT ==
    [tomoE  |-> <<[k |-> "tomoEus_x", v |-> POSITIONS["tomoEus_x"]["in"]],
                  [k |-> "shield", v |-> POSITIONS["shield"]["in"]]>>,
     bright |-> <<>>]

MPEMotors == {n \in DeviceNames : oregistry[n] = "MPEMotor"}

Init ==
    /\ configs = CONFIGS_INIT
    /\ disable \in [MPEMotors -> {0, 1}]
    /\ plan = NoPlan
    /\ pc = "idle"
    /\ motions = <<>>
    /\ finished = 0
    /\ validated = 0
    /\ limits_read = NoLimits
    /\ error = NoError
    /\ reordered = NotReordered

\* the RunEngine is free to take a new plan
Idle == pc = "idle"

\* the RunEngine takes plan p
Load(p) ==
    /\ plan' = p
    /\ motions' = <<>>
    /\ finished' = 0
    /\ validated' = 0
    /\ limits_read' = NoLimits

\* a fresh generator: nothing of its body has run
Begin(p) ==
    /\ Load(p)
    /\ pc' = "start"
    /\ error' = NoError

\* ---- arguments of move
MotorArgs == {Obj(n) : n \in DeviceNames} \cup {NameOf("shield")}
PositionArgs ==
    {IntV(-200), IntV(0), FloatV(220), StrV("in"), StrV("out"), StrV("air"), NoneV}

\* argument lists: motors at the odd places, positions at the even ones
ArgLists ==
    UNION {{a \in [1..n -> MotorArgs \cup PositionArgs] :
                \A i \in 1..n : IF i % 2 = 1 THEN a[i] \in MotorArgs
                                             ELSE a[i] \in PositionArgs} : n \in 0..MaxArgs}

\* RE(move(*args)) is handed to the RunEngine
Move ==
    /\ Idle
    /\ \E args \in ArgLists : Begin([NoPlan EXCEPT !.op = "move", !.args = args])
    /\ reordered' = NotReordered
    /\ UNCHANGED <<configs, disable>>

\* the pairs partition(2, args) yields
NPairs(args) == Len(args) \div 2

\* The generator of move runs from its start, or from the end of a wait, to its next
\* bps.mv, its return or its exception.
MoveStep ==
    /\ plan.op = "move"
    /\ pc \in {"start", "ready"}
    /\ IF pc = "start" /\ odd_args(plan.args)
       THEN /\ pc' = "raised"
            /\ error' = Raise("ValueError", "Each motor must contain a position to move to.")
            /\ UNCHANGED <<motions, validated, limits_read>>
       ELSE IF Len(motions) >= NPairs(plan.args)
       THEN /\ pc' = "done"
            /\ UNCHANGED <<motions, validated, limits_read, error>>
       ELSE \E lo \in LowLimits, hi \in HighLimits :
            LET i == Len(motions) + 1
                r == move_pair(plan.args[2 * i - 1], plan.args[2 * i], disable, lo, hi)
            IN  /\ validated' = validated + 1
                /\ limits_read' = r.lim
                /\ error' = r.err
                /\ IF r.err # NoError
                   THEN /\ pc' = "raised"
                        /\ UNCHANGED motions
                   ELSE /\ pc' = "moving"
                        /\ motions' = Append(motions,
                              [motor |-> r.name, target |-> r.p, lim |-> r.lim])
    /\ UNCHANGED <<configs, disable, plan, finished, reordered>>

\* the wait of bps.mv ends: the motion is finished
MotionDone ==
    /\ pc = "moving"
    /\ finished' = finished + 1
    /\ pc' = "ready"
    /\ UNCHANGED <<configs, disable, plan, motions, validated, limits_read, error, reordered>>

\* bps.mv(motor.disable, value) for an MPEMotor, ValueError for any other class
SetDisable(op, n, value) ==
    /\ Load([NoPlan EXCEPT !.op = op, !.motor = Obj(n)])
    /\ IF oregistry[n] = "MPEMotor"
       THEN /\ disable' = [disable EXCEPT ![n] = value]
            /\ pc' = "done"
            /\ error' = NoError
       ELSE /\ disable' = disable
            /\ pc' = "raised"
            /\ error' = Raise("ValueError", "does not have enable/disable PV")
    /\ reordered' = NotReordered
    /\ UNCHANGED configs

\* RE(enable_motor(motor)), run to completion
EnableMotor ==
    /\ Idle
    /\ \E n \in DeviceNames : SetDisable("enable_motor", n, 0)

\* RE(disable_motor(motor)), run to completion
DisableMotor ==
    /\ Idle
    /\ \E n \in DeviceNames : SetDisable("disable_motor", n, 1)

\* ---------------------------------------------------------------- registry
\* CONFIGS[name] = d
Put(CONFIGS, name, d) ==
    [c \in DOMAIN CONFIGS \cup {name} |-> IF c = name THEN d ELSE CONFIGS[c]]

\* del CONFIGS[name]
Del(CONFIGS, name) == [c \in DOMAIN CONFIGS \ {name} |-> CONFIGS[c]]

\* del d[k]
DictDel(d, k) == SelectSeq(d, LAMBDA e : e.k # k)

RECURSIVE format_dict(_, _)
\* the loop of add_config over new_dict.items(): motor objects become their names
format_dict(new_dict, formatted_dict) ==
    IF new_dict = <<>> THEN [err |-> NoError, dict |-> formatted_dict]
    ELSE LET motor == Head(new_dict).key
             position == Head(new_dict).val
         IN  IF position.t \notin {"float", "int"}
             THEN [err |-> Raise("TypeError", "Position must be a float or int"),
                   dict |-> <<>>]
             ELSE IF ClassName(motor) \in object_classes \/ ClassName(motor) = "str"
             THEN format_dict(Tail(new_dict),
                              DictSet(formatted_dict, motor.name, position.n))
             ELSE [err |-> Raise("TypeError", "Motor must be an object or string"),
                   dict |-> <<>>]

\* variant: the dicts are merged the other way round, the old entries win
merge_overwrite_mutant(old, formatted_dict) == DictUpdate(formatted_dict, old)
\* {**CONFIGS[new_name], **formatted_dict}
merge_overwrite(old, formatted_dict) == DictUpdate(old, formatted_dict)

\* variant: the test `key not in` is missing
merge_keep_mutant(old, formatted_dict) == DictUpdate(old, formatted_dict)
RECURSIVE merge_keep(_, _)
\* for key, value in formatted_dict.items(): if key not in old: old[key] = value
merge_keep(old, formatted_dict) ==
    IF formatted_dict = <<>> THEN old
    ELSE LET e == Head(formatted_dict)
         IN  merge_keep(IF e.k \notin Keys(old) THEN DictSet(old, e.k, e.v) ELSE old,
                        Tail(formatted_dict))

\* the body of add_config up to its bps.mv(configs, CONFIGS)
add_config(CONFIGS, new_dict, new_name, overwrite) ==
    LET f == format_dict(new_dict, <<>>)
    IN  IF f.err # NoError THEN [err |-> f.err, configs |-> CONFIGS]
        ELSE IF new_name \in DOMAIN CONFIGS
        THEN IF overwrite
             THEN [err |-> NoError,
                   configs |-> Put(CONFIGS, new_name,
                                   merge_overwrite(CONFIGS[new_name], f.dict))]
             ELSE [err |-> NoError,
                   configs |-> Put(CONFIGS, new_name,
                                   merge_keep(CONFIGS[new_name], f.dict))]
        ELSE [err |-> NoError, configs |-> Put(CONFIGS, new_name, f.dict)]

RECURSIVE order_loop(_, _, _)
\* the loop of change_order over new_order, filling ordered_config
order_loop(new_order, config, ordered_config) ==
    IF new_order = <<>> THEN [err |-> NoError, dict |-> ordered_config]
    ELSE LET motor == Head(new_order)
         IN  IF ClassName(motor) \notin object_classes /\ ClassName(motor) # "str"
             THEN [err |-> Raise("TypeError", "Motor must be an object or string"),
                   dict |-> <<>>]
             ELSE IF motor.name \notin Keys(config)
             THEN [err |-> Raise("ValueError", "Received unexpected motor"), dict |-> <<>>]
             ELSE order_loop(Tail(new_order), config,
                             DictSet(ordered_config, motor.name, Get(config, motor.name)))

\* variant: ordered_config is built but never stored
change_order_mutant(CONFIGS, new_order, config_name) ==
    IF ~new_order.islist \/ config_name \notin DOMAIN CONFIGS
       \/ Len(new_order.items) # Len(CONFIGS[config_name])
    THEN [err |-> Raise("ValueError", "rejected"), configs |-> CONFIGS]
    ELSE LET r == order_loop(new_order.items, CONFIGS[config_name], <<>>)
         IN  [err |-> r.err, configs |-> CONFIGS]
\* the body of change_order up to its bps.mv(configs, CONFIGS)
change_order(CONFIGS, new_order, config_name) ==
    IF ~new_order.islist
    THEN [err |-> Raise("TypeError", "new_order must be a list"), configs |-> CONFIGS]
    ELSE IF config_name \notin DOMAIN CONFIGS
    THEN [err |-> Raise("ValueError", "Received unknown config name"), configs |-> CONFIGS]
    ELSE IF Len(new_order.items) # Len(CONFIGS[config_name])
    THEN [err |-> Raise("ValueError", "Not all motors are included"), configs |-> CONFIGS]
    ELSE LET r == order_loop(new_order.items, CONFIGS[config_name], <<>>)
         IN  IF r.err # NoError THEN [err |-> r.err, configs |-> CONFIGS]
             ELSE [err |-> NoError, configs |-> Put(Del(CONFIGS, config_name),
                                                    config_name, r.dict)]

\* device.hints['fields'] of the devices capture_config is given
hints == [tomoEus |-> <<"tomoEus_x">>]

\* the motors capture_config collects, or the error it raises before
capture_motors(device, motor) ==
    IF device = "" /\ motor = NoKey
    THEN [err |-> Raise("ValueError", "Must specify a device or a motor"), motors |-> <<>>]
    ELSE IF device # "" /\ motor # NoKey
    THEN [err |-> Raise("ValueError", "Must specify device OR a single motor"),
          motors |-> <<>>]
    ELSE IF device # ""
    THEN IF \A i \in DOMAIN hints[device] : oregistry[hints[device][i]] \in motor_classes
         THEN [err |-> NoError, motors |-> hints[device]]
         ELSE [err |-> Raise("AttributeError", "str object has no attribute name"),
               motors |-> <<>>]
    ELSE IF ClassName(motor) \in motor_classes
    THEN [err |-> NoError, motors |-> <<motor.name>>]
    ELSE IF motor.kind = "str"
    THEN [err |-> Raise("AttributeError", "str object has no attribute name"),
          motors |-> <<>>]
    ELSE [err |-> Raise("TypeError", "not recognized as a motor object"), motors |-> <<>>]

\* the body of delete_motor up to its bps.mv(configs, CONFIGS)
delete_motor(CONFIGS, motor, config_name) ==
    IF ClassName(motor) # "str" /\ ClassName(motor) \notin object_classes
    THEN [err |-> Raise("TypeError", "is not an accepted object type"), configs |-> CONFIGS]
    ELSE IF config_name \notin DOMAIN CONFIGS
    THEN [err |-> Raise("KeyError", config_name), configs |-> CONFIGS]
    ELSE IF motor.name \notin Keys(CONFIGS[config_name])
    THEN [err |-> Raise("KeyError", motor.name), configs |-> CONFIGS]
    ELSE [err |-> NoError,
          configs |-> Put(CONFIGS, config_name, DictDel(CONFIGS[config_name], motor.name))]

\* the body of delete_config up to its bps.mv(configs, CONFIGS)
delete_config(CONFIGS, config_name) ==
    IF config_name \notin DOMAIN CONFIGS
    THEN [err |-> Raise("KeyError", config_name), configs |-> CONFIGS]
    ELSE [err |-> NoError, configs |-> Del(CONFIGS, config_name)]

\* variant: CONFIGS.get(config_name, {}) in place of the membership test
switch_to_fetch_mutant(CONFIGS, config_name) ==
    IF config_name \notin DOMAIN CONFIGS
    THEN [err |-> NoError, config |-> <<>>]
    ELSE [err |-> NoError, config |-> CONFIGS[config_name]]
\* CONFIGS = configs.get(); if config_name not in CONFIGS: raise KeyError
switch_to_fetch(CONFIGS, config_name) ==
    IF config_name \notin DOMAIN CONFIGS
    THEN [err |-> Raise("KeyError", "config_name not in CONFIGS"), config |-> <<>>]
    ELSE [err |-> NoError, config |-> CONFIGS[config_name]]

\* variant: the keys are walked in reverse
switch_to_entry_mutant(config, i) == config[Len(config) + 1 - i]
\* the i-th motor_name of `for motor_name in CONFIGS[config_name].keys()`
switch_to_entry(config, i) == config[i]

\* ---- arguments of the registry plans
ConfigNames == {"tomoE", "bright"}
\* motors are given as objects; shield is also given by its name.  Only the two
\* motors of tomoE can enter the registry, which keeps it small.
KeyArgs == {Obj("tomoEus_x"), Obj("shield"), Obj("hexa"), NameOf("shield")}
ValueArgs == {IntV(0), FloatV(220), NoneV}
CaptureArgs ==
    {NoKey, Obj("tomoEus_x"), Obj("shield"), Obj("shutter_c"), NameOf("shield")}
\* what motor.position can return
PositionReads == {0, 220}

SeqsUpTo(S, n) == UNION {[1..m -> S] : m \in 0..n}

NewDicts ==
    {d \in SeqsUpTo([key : KeyArgs, val : ValueArgs], MaxDict) :
        \A i, j \in DOMAIN d : i # j => d[i].key # d[j].key}

NewOrders ==
    {[islist |-> TRUE, items |-> s] : s \in SeqsUpTo(KeyArgs, MaxOrder)}
    \cup {[islist |-> FALSE, items |-> <<NameOf("shield"), NameOf("tomoEus_x")>>]}

\* A registry plan run to its end by the RunEngine: its body changes CONFIGS, which is
\* the very dict the signal holds, and bps.mv(configs, CONFIGS) puts it back.
Finish(p, r) ==
    /\ Load(p)
    /\ pc' = IF r.err = NoError THEN "done" ELSE "raised"
    /\ error' = r.err
    /\ configs' = r.configs
    /\ UNCHANGED disable

\* RE(add_config(new_dict, new_name, overwrite))
AddConfig ==
    /\ Idle
    /\ \E new_dict \in NewDicts, new_name \in ConfigNames, overwrite \in BOOLEAN :
        Finish([NoPlan EXCEPT !.op = "add_config", !.new_dict = new_dict,
                              !.config_name = new_name, !.overwrite = overwrite],
               add_config(configs, new_dict, new_name, overwrite))
    /\ reordered' = NotReordered

\* RE(change_order(new_order, config_name))
ChangeOrder ==
    /\ Idle
    /\ \E new_order \in NewOrders, config_name \in ConfigNames :
        LET r == change_order(configs, new_order, config_name)
        IN  /\ Finish([NoPlan EXCEPT !.op = "change_order", !.new_order = new_order,
                                     !.config_name = config_name], r)
            /\ reordered' = IF r.err = NoError
                            THEN [config_name |-> config_name,
                                  order |-> [i \in DOMAIN new_order.items |->
                                                new_order.items[i].name]]
                            ELSE NotReordered

\* RE(capture_config(config_name, device, motor, overwrite)); the plan record keeps
\* capture_dict as new_dict
CaptureConfig ==
    /\ Idle
    /\ \E config_name \in ConfigNames, device \in {""} \cup DOMAIN hints,
          motor \in CaptureArgs, overwrite \in BOOLEAN :
        LET m == capture_motors(device, motor)
            p == [NoPlan EXCEPT !.op = "capture_config", !.config_name = config_name,
                                !.device = device, !.motor = motor,
                                !.overwrite = overwrite]
        IN  IF m.err # NoError
            THEN Finish(p, [err |-> m.err, configs |-> configs])
            ELSE \E position \in [DOMAIN m.motors -> PositionReads] :
                    LET capture_dict ==
                            [i \in DOMAIN m.motors |->
                                [key |-> NameOf(m.motors[i]), val |-> FloatV(position[i])]]
                    IN  Finish([p EXCEPT !.new_dict = capture_dict],
                               add_config(configs, capture_dict, config_name, overwrite))
    /\ reordered' = NotReordered

\* RE(delete_motor(motor, config_name))
DeleteMotor ==
    /\ Idle
    /\ \E motor \in KeyArgs, config_name \in ConfigNames :
        Finish([NoPlan EXCEPT !.op = "delete_motor", !.motor = motor,
                              !.config_name = config_name],
               delete_motor(configs, motor, config_name))
    /\ reordered' = NotReordered

\* RE(delete_config(config_name))
DeleteConfig ==
    /\ Idle
    /\ \E config_name \in ConfigNames :
        Finish([NoPlan EXCEPT !.op = "delete_config", !.config_name = config_name],
               delete_config(configs, config_name))
    /\ reordered' = NotReordered

\* RE(switch_to(config_name)) is handed to the RunEngine
SwitchTo ==
    /\ Idle
    /\ \E config_name \in ConfigNames :
        /\ Begin([NoPlan EXCEPT !.op = "switch_to", !.config_name = config_name])
        /\ reordered' = IF reordered.config_name = config_name THEN reordered
                        ELSE NotReordered
    /\ UNCHANGED <<configs, disable>>

\* The generator of switch_to runs from its start, or from the end of a wait, to the
\* next bps.mv of the move it delegates to, its return or its exception.
SwitchStep ==
    /\ plan.op = "switch_to"
    /\ pc \in {"start", "ready"}
    /\ LET f == switch_to_fetch(configs, plan.config_name)
       IN  IF f.err # NoError
           THEN /\ pc' = "raised"
                /\ error' = f.err
                /\ UNCHANGED <<motions, validated, limits_read>>
           ELSE IF Len(motions) >= Len(f.config)
           THEN /\ pc' = "done"
                /\ UNCHANGED <<motions, validated, limits_read, error>>
           ELSE \E lo \in LowLimits, hi \in HighLimits :
                LET e == switch_to_entry(f.config, Len(motions) + 1)
                    \* move(oregistry[motor_name], stored position): a number
                    r == move_pair(Obj(e.k), FloatV(e.v), disable, lo, hi)
                IN  /\ validated' = validated + 1
                    /\ limits_read' = r.lim
                    /\ error' = r.err
                    /\ IF r.err # NoError
                       THEN /\ pc' = "raised"
                            /\ UNCHANGED motions
                       ELSE /\ pc' = "moving"
                            /\ motions' = Append(motions,
                                  [motor |-> r.name, target |-> r.p, lim |-> r.lim])
    /\ UNCHANGED <<configs, disable, plan, finished, reordered>>

\* RE(...) returns to the user once the plan is over
Return ==
    /\ pc \in {"done", "raised"}
    /\ pc' = "idle"
    /\ plan' = NoPlan
    /\ motions' = <<>>
    /\ finished' = 0
    /\ validated' = 0
    /\ limits_read' = NoLimits
    /\ error' = NoError
    /\ UNCHANGED <<configs, disable, reordered>>

NextMove == Move \/ MoveStep \/ MotionDone \/ EnableMotor \/ DisableMotor \/ Return

SpecMove == Init /\ [][NextMove]_vars

Next ==
    \/ AddConfig \/ ChangeOrder \/ CaptureConfig \/ DeleteMotor \/ DeleteConfig
    \/ SwitchTo \/ SwitchStep \/ MotionDone \/ EnableMotor \/ DisableMotor \/ Return

Spec == Init /\ [][Next]_vars

\* ---------------------------------------------------------------- claims
\* what the claims read off the arguments of a plan
DictNames(new_dict) == {new_dict[i].key.name : i \in DOMAIN new_dict}

\* the position of the last entry of new_dict that names motor n
LastPosition(new_dict, n) ==
    LET last == CHOOSE i \in DOMAIN new_dict :
                    /\ new_dict[i].key.name = n
                    /\ \A j \in DOMAIN new_dict : new_dict[j].key.name = n => j <= i
    IN  new_dict[last].val.n

Pairs(d) == {<<d[i].k, d[i].v>> : i \in DOMAIN d}

\* a step in which the RunEngine ran registry plan op to its end without exception
Ran(ops) == pc = "idle" /\ pc' = "done" /\ plan'.op \in ops

RECURSIVE FirstOccurrences(_, _)
FirstOccurrences(order, seen) ==
    IF order = <<>> THEN <<>>
    ELSE IF Head(order) \in seen THEN FirstOccurrences(Tail(order), seen)
    ELSE <<Head(order)>> \o FirstOccurrences(Tail(order), seen \cup {Head(order)})

\* the pair of move's arguments whose validation ended the plan, when one did
FailedPair == validated = Len(motions) + 1 /\ pc = "raised"

MotorArg(i) == plan.args[2 * i - 1]
PositionArg(i) == plan.args[2 * i]

\* C1 (as amended): switch_to(config_name) of a registered configuration requests its
\* motions in the dictionary order of the configuration, each for the motor at that
\* place and to the position stored for it, the next one only once the one before is
\* finished; it stops at the first motor that move rejects, so that it ends normally
\* exactly when it has moved every motor once, and ends with move's exception with
\* the motors before the rejected one moved and none after.
C1_SwitchToMovesInOrderUntilRejected ==
    (plan.op = "switch_to" /\ plan.config_name \in DOMAIN configs) =>
        LET config == configs[plan.config_name]
        IN  /\ Len(motions) <= Len(config)
            /\ \A i \in DOMAIN motions :
                  motions[i].motor = config[i].k /\ motions[i].target = config[i].v
            /\ finished <= Len(motions) /\ Len(motions) <= finished + 1
            /\ (pc \in {"start", "ready", "done", "raised"} => finished = Len(motions))
            /\ (pc = "done" => Len(motions) = Len(config))
            /\ (pc = "raised" =>
                  /\ Len(motions) < Len(config)
                  /\ error.msg \in {"Motor not recognized", "not enabled", "out of limits"})

C1_Witness ==
    /\ plan.op = "switch_to" /\ pc = "done"
    /\ Len(motions) = 2 /\ finished = 2
    /\ motions[1].motor # motions[2].motor

\* C1 (as claimed): a switch_to of a registered configuration that is over has
\* requested exactly one motion per motor of the configuration, in order.
C1_AsClaimed ==
    (plan.op = "switch_to" /\ plan.config_name \in DOMAIN configs
        /\ pc \in {"done", "raised"}) =>
        /\ Len(motions) = Len(configs[plan.config_name])
        /\ \A i \in DOMAIN motions :
              /\ motions[i].motor = configs[plan.config_name][i].k
              /\ motions[i].target = configs[plan.config_name][i].v

\* C2: switch_to(config_name) with a config_name that is no key of the registry
\* raises KeyError, having validated no motor and requested no motion, and no step
\* of switch_to changes the registry.
C2_UnknownConfigRaisesKeyError ==
    /\ []((plan.op = "switch_to" /\ plan.config_name \notin DOMAIN configs
             /\ pc # "start") =>
            /\ pc = "raised" /\ error.cls = "KeyError"
            /\ motions = <<>> /\ validated = 0)
    /\ [][plan.op = "switch_to" => configs' = configs]_vars

C2_Witness ==
    /\ plan.op = "switch_to" /\ plan.config_name \notin DOMAIN configs
    /\ pc = "raised" /\ error.cls = "KeyError"

\* C3: when add_config(new_dict, new_name, overwrite=True) has run to completion,
\* configuration new_name holds the motors of its previous content (none if it did
\* not exist) and those of new_dict, each once; every motor of new_dict has the
\* position new_dict gives it (that of its last entry, should new_dict name it both
\* by object and by name), every other motor keeps its old position, and every
\* other configuration is unchanged.
C3_OverwriteMerges ==
    [][(Ran({"add_config", "capture_config"}) /\ plan'.overwrite) =>
        LET n == plan'.config_name
            d == plan'.new_dict
            old == IF n \in DOMAIN configs THEN configs[n] ELSE <<>>
            new == configs'[n]
        IN  /\ DOMAIN configs' = DOMAIN configs \cup {n}
            /\ \A c \in DOMAIN configs \ {n} : configs'[c] = configs[c]
            /\ Keys(new) = Keys(old) \cup DictNames(d)
            /\ Len(new) = Cardinality(Keys(new))
            /\ \A k \in DictNames(d) : Get(new, k) = LastPosition(d, k)
            /\ \A k \in Keys(old) \ DictNames(d) : Get(new, k) = Get(old, k)]_vars

C3_Witness ==
    /\ plan.op = "add_config" /\ pc = "done" /\ plan.overwrite
    /\ plan.config_name = "tomoE"
    /\ plan.new_dict = <<[key |-> Obj("shield"), val |-> FloatV(220)]>>
    /\ configs["tomoE"] = <<[k |-> "tomoEus_x", v |-> 0], [k |-> "shield", v |-> 220]>>

\* C4: add_config(new_dict, new_name, overwrite=False) on an existing configuration
\* leaves every motor already in it at its position; the motors of new_dict that
\* were absent are added, with the positions new_dict gives them, and nothing else.
C4_NoOverwriteKeepsOld ==
    [][(Ran({"add_config", "capture_config"}) /\ ~plan'.overwrite
            /\ plan'.config_name \in DOMAIN configs) =>
        LET n == plan'.config_name
            d == plan'.new_dict
            old == configs[n]
            new == configs'[n]
        IN  /\ \A k \in Keys(old) : Get(new, k) = Get(old, k)
            /\ Keys(new) = Keys(old) \cup DictNames(d)
            /\ Len(new) = Cardinality(Keys(new))
            /\ \A k \in Keys(new) \ Keys(old) : Get(new, k) = LastPosition(d, k)]_vars

C4_Witness ==
    /\ plan.op = "add_config" /\ pc = "done" /\ ~plan.overwrite
    /\ plan.config_name = "tomoE"
    /\ plan.new_dict = <<[key |-> Obj("shield"), val |-> FloatV(220)]>>
    /\ configs["tomoE"] = <<[k |-> "tomoEus_x", v |-> 0], [k |-> "shield", v |-> 0]>>

\* C5: move(*args) with an odd number of arguments raises ValueError ('Each motor
\* must contain a position to move to.') with no motor validated, no limit read and
\* no motion requested.
C5_OddArgsRaiseFirst ==
    (plan.op = "move" /\ Len(plan.args) % 2 = 1 /\ pc # "start") =>
        /\ pc = "raised"
        /\ error = Raise("ValueError", "Each motor must contain a position to move to.")
        /\ motions = <<>>
        /\ validated = 0
        /\ ~limits_read.read

C5_Witness ==
    /\ plan.op = "move" /\ Len(plan.args) = 3 /\ pc = "raised"
    /\ error.cls = "ValueError"

\* C6 (as amended): every motion move requests for a pair (motor, position) is for
\* that motor, to POSITIONS[motor.name][position] when position is a str and to
\* position itself when it is an int or a float; a position of another type gets no
\* motion and ends move with TypeError, unless the motor is a disabled MPEMotor, for
\* which move raises ValueError before it looks at the position.
C6_TargetOfMove ==
    plan.op = "move" =>
        /\ \A i \in DOMAIN motions :
              /\ motions[i].motor = MotorArg(i).name
              /\ PositionArg(i).t \in {"str", "int", "float"}
              /\ PositionArg(i).t = "str" =>
                    /\ MotorArg(i).name \in DOMAIN POSITIONS
                    /\ PositionArg(i).s \in DOMAIN POSITIONS[MotorArg(i).name]
                    /\ motions[i].target = POSITIONS[MotorArg(i).name][PositionArg(i).s]
              /\ PositionArg(i).t \in {"int", "float"} =>
                    motions[i].target = PositionArg(i).n
        /\ (FailedPair /\ PositionArg(validated).t \notin {"str", "int", "float"}) =>
              \/ error.cls = "TypeError"
              \/ /\ oregistry[MotorArg(validated).name] = "MPEMotor"
                 /\ disable[MotorArg(validated).name] = 1
                 /\ error = Raise("ValueError", "not enabled")

C6_Witness ==
    /\ plan.op = "move" /\ Len(plan.args) = 4 /\ FailedPair
    /\ Len(motions) = 1 /\ PositionArg(1) = StrV("out") /\ motions[1].target = 220
    /\ PositionArg(2) = NoneV
    /\ error = Raise("TypeError", "Position type not recognized")

\* C6 (as claimed): a position that is neither a str, an int nor a float ends move
\* with TypeError.
C6_AsClaimed ==
    (plan.op = "move" /\ FailedPair
        /\ PositionArg(validated).t \notin {"str", "int", "float"}) =>
        error.cls = "TypeError"

\* C7 (as claimed): a change_order that succeeds was given every motor of the
\* configuration, and leaves the configuration with the same motor-to-position
\* pairs as before.
C7_AsClaimed ==
    [][Ran({"change_order"}) =>
        LET n == plan'.config_name
        IN  /\ Keys(configs[n]) \subseteq
                  {plan'.new_order.items[i].name : i \in DOMAIN plan'.new_order.items}
            /\ Pairs(configs'[n]) = Pairs(configs[n])]_vars

\* C8: a switch_to(config_name) that follows a successful
\* change_order(new_order, config_name) requests its motions in the order of
\* new_order (of the first mention of each motor in it), and has moved all of them
\* when it ends normally.
C8_SwitchToFollowsNewOrder ==
    (plan.op = "switch_to" /\ reordered.config_name = plan.config_name) =>
        LET order == FirstOccurrences(reordered.order, {})
        IN  /\ Len(motions) <= Len(order)
            /\ \A i \in DOMAIN motions : motions[i].motor = order[i]
            /\ (pc = "done" => Len(motions) = Len(order))

C8_Witness ==
    /\ plan.op = "switch_to" /\ reordered.config_name = plan.config_name
    /\ reordered.order = <<"shield", "tomoEus_x">>
    /\ pc = "done" /\ Len(motions) = 2
    /\ motions[1].motor = "shield" /\ motions[2].motor = "tomoEus_x"

\* C9 (as claimed): after capture_config(config_name, motor=m) with overwrite=True
\* has run to completion, m is the last motor of configuration config_name.
C9_AsClaimed ==
    (plan.op = "capture_config" /\ pc = "done" /\ plan.motor # NoKey /\ plan.overwrite) =>
        LET config == configs[plan.config_name]
        IN  config # <<>> /\ config[Len(config)].k = plan.motor.name

\* the position the i-th pair of move's arguments asks for, once resolved
Requested(i) ==
    IF PositionArg(i).t = "str"
    THEN POSITIONS[MotorArg(i).name][PositionArg(i).s]
    ELSE PositionArg(i).n

====
